---- MODULE Spec2Model ----
(***************************************************************************)
(* Drawi agent: the game lifecycle (run_create_game_agent_task,            *)
(* run_close_game_agent_task), the game store and the APScheduler jobs     *)
(* that drive them.  One action per code segment between two awaits.       *)
(* Python dicts are functions from the keys present to values; None is the *)
(* string "None"; a str is a sequence of tokens when its content is        *)
(* scanned (reply text) and a TLA+ string otherwise.  Time is in seconds.  *)
(***************************************************************************)
EXTENDS Integers, Sequences, FiniteSets, TLC

VARIABLES now, cfg, jobs, creates, sweeps, store, tweets, ev

vars == <<now, cfg, jobs, creates, sweeps, store, tweets, ev>>

(***************************************************************************)
(* Bounds of the model.                                                    *)
(***************************************************************************)
\* number of clock observations after startup
MaxTicks == 2
\* games the platform lets the agent open: it refuses every publish after them
MaxGames == 2
\* firings of the second agent process's close job
MaxPeerSweeps == 1
\* longest reply list a fetch returns
MaxReplies == 2
\* most words in a text given to the entry validator on its own
MaxWords == 2
\* seconds the scheduler is followed for when the clock is read every second
MaxDelay == 62

(***************************************************************************)
(* Program constants.                                                      *)
(***************************************************************************)
\* scheduler.py: misfire_grace_time=60
misfire_grace_time == 60
\* a job added with max_instances=2
max_instances_two == 1 + 1

\* APScheduler's default for add_job, which the code does not override
max_instances == 1

\* the clock is observed every two grace windows
TickSeconds == 2 * misfire_grace_time
MaxTime == MaxTicks * TickSeconds

None == "None"
EmptyDict == [k \in {} |-> ""]

\* dict.get(key, default)
Get(d, k, default) == IF k \in DOMAIN d THEN d[k] ELSE default

\* pymongo {"$set": fields}: the keys of fields replace or extend the document
SetFields(doc, fields) ==
    [k \in DOMAIN doc \cup DOMAIN fields |->
        IF k \in DOMAIN fields THEN fields[k] ELSE doc[k]]

\* python truthiness of an optional string
Truthy(x) == x # None /\ x # ""

(***************************************************************************)
(* Configuration, read once at process start.                              *)
(***************************************************************************)
\* GAME_DURATION values the model deploys with: unset, or 100 seconds
GameDurations == {"", "100"}

\* int(game_duration_env) for the values above
IntOf(s) == IF s = "100" THEN 100 ELSE 0

\* START_GAME_SCHEDULE and CLOSE_GAME_SCHEDULE values: the default of 240
\* seconds, and 120 seconds
Schedules == {120, 240}

\* COSMOS_MONGO_URI: unset, or a connection string
MongoUris == {"", "mongodb://cosmos"}

\* X_CREDENTIALS: whether the six X_* variables main requires are all set
Configs ==
    [ create_game_on_startup : BOOLEAN,
      disable_create_game    : BOOLEAN,
      GAME_DURATION          : GameDurations,
      START_GAME_SCHEDULE    : Schedules,
      CLOSE_GAME_SCHEDULE    : Schedules,
      X_CREDENTIALS          : BOOLEAN,
      COSMOS_MONGO_URI       : MongoUris ]

\* the configurations the model starts from: every setting at its default,
\* and games of 100 seconds swept every 120 seconds with creation on startup,
\* held back to the first interval, or disabled; the last of these also with
\* the platform credentials, or the store's connection string, left unset
Deployments ==
    {c \in Configs :
        /\ c.START_GAME_SCHEDULE = 240
        /\ \/ /\ c.GAME_DURATION = "" /\ c.CLOSE_GAME_SCHEDULE = 240
              /\ c.create_game_on_startup /\ ~c.disable_create_game
              /\ c.X_CREDENTIALS /\ c.COSMOS_MONGO_URI # ""
           \/ /\ c.GAME_DURATION = "100" /\ c.CLOSE_GAME_SCHEDULE = 120
              /\ ~(c.create_game_on_startup /\ c.disable_create_game)
              /\ c.X_CREDENTIALS /\ c.COSMOS_MONGO_URI # ""
           \/ /\ c.GAME_DURATION = "100" /\ c.CLOSE_GAME_SCHEDULE = 120
              /\ c.create_game_on_startup /\ ~c.disable_create_game
              /\ ~(c.X_CREDENTIALS /\ c.COSMOS_MONGO_URI # "")
              /\ (c.X_CREDENTIALS \/ c.COSMOS_MONGO_URI # "")}

\* the game types choose_game draws from: the model takes one of the seven, the
\* type having no effect on the lifecycle beyond the judge's instruction
GAME_TYPES == {"fun_fact"}

\* A tweet text is the sequence of its parts.  choose_game (lines 33-122):
\* the body of the chosen type, ending in the placeholder for the result time
Placeholder == "{result_time}"

\* the body with the result time already filled in
choose_game_rendered(game_type) ==
    <<"/GAME OPEN", game_type, "/RESULT:", "In 1 minutes.">>

choose_game(game_type) == <<"/GAME OPEN", game_type, "/RESULT:", Placeholder>>

\* tweet_text.format(result_time=...): every placeholder replaced
format(text, result_time) ==
    [i \in DOMAIN text |-> IF text[i] = Placeholder THEN result_time ELSE text[i]]

\* f"In {minutes} minutes."
ResultTime(minutes) == "In " \o ToString(minutes) \o " minutes."

\* possible_durations, in minutes
possible_durations == {30, 60, 90, 120, 150, 180}

(***************************************************************************)
(* The platform: tweet ids are assigned by the platform, fresh per post.   *)
(***************************************************************************)
TweetId(n) == "t" \o ToString(n)

\* the response of create_tweet for the next post
NewTweet(kind, reply_to) ==
    [id |-> TweetId(Len(tweets) + 1), kind |-> kind, reply_to |-> reply_to]

\* the game announcement as the platform keeps it: the text it was sent
GameTweet(text) == SetFields(NewTweet("game", None), [text |-> text])

\* post_tweet / reply_to_tweet results: a dict with "id", or a dict with "error"
PostOk(t) == [id |-> t.id, status |-> "success"]
PostError == [error |-> "Twitter API error"]
\* a success dict whose id is empty (a response.data without a usable id)
PostNoId == [id |-> "", status |-> "success"]

(***************************************************************************)
(* GameStore                                                               *)
(***************************************************************************)
\* one identifier for every game
NewGameIdFixed == "g" \o ToString(1)

\* uuid.uuid4(): a fresh identifier
NewGameId == "g" \o ToString(Len(store) + 1)

\* datetime.now() read again later in the same job body: the clock has not
\* moved since the earlier reading, or it has
LaterNow == {now, now + 1}

\* GameStore.create_game: the inserted document; created_at is what
\* datetime.now() returns at line 24
GameDoc(game_id, tweet_id, game_type, close_at, created_at) ==
    [ game_id         |-> game_id,
      tweet_id        |-> tweet_id,
      game_type       |-> game_type,
      status          |-> "open",
      created_at      |-> created_at,
      close_at        |-> close_at,
      winner_tweet_id |-> None,
      winner_wallet   |-> None ]

\* replace_one(..., upsert=True) on the first document instead of insert_one
create_game_replace(game_id, tweet_id, game_type, close_at, created_at) ==
    IF store = << >>
    THEN <<GameDoc(game_id, tweet_id, game_type, close_at, created_at)>>
    ELSE [store EXCEPT
            ![1] = GameDoc(game_id, tweet_id, game_type, close_at, created_at)]

create_game(game_id, tweet_id, game_type, close_at, created_at) ==
    Append(store, GameDoc(game_id, tweet_id, game_type, close_at, created_at))

\* the update stamping close_at with the time of the closure as well
update_game_stamps_close_at(game_id, update_fields) ==
    LET hits == {i \in DOMAIN store : store[i]["game_id"] = game_id}
        fields == SetFields(update_fields, [updated_at |-> now, close_at |-> now])
    IN  IF hits = {} THEN store
        ELSE LET first == CHOOSE i \in hits : \A j \in hits : i <= j
             IN  [store EXCEPT ![first] = SetFields(store[first], fields)]

\* GameStore.update_game: update_one sets the fields, and updated_at, on the
\* first document whose game_id matches; no document matches -> no change
update_game(game_id, update_fields) ==
    LET hits == {i \in DOMAIN store : store[i]["game_id"] = game_id}
        fields == SetFields(update_fields, [updated_at |-> now])
    IN  IF hits = {} THEN store
        ELSE LET first == CHOOSE i \in hits : \A j \in hits : i <= j
             IN  [store EXCEPT ![first] = SetFields(store[first], fields)]

\* the status written in an update of its own, before the one that fails
failed_update_status_first(game_id, update_fields) ==
    update_game(game_id, [status |-> update_fields["status"]])

\* GameStore.update_game when update_one raises: no document is changed and
\* the exception leaves update_game
failed_update(game_id, update_fields) == store

\* GameStore(): __init__ raises ValueError when COSMOS_MONGO_URI is unset, so
\* every job body that reaches a store call fails there; with the setting
\* present a call is served, or fails in pymongo
StoreAnswers == IF Truthy(cfg.COSMOS_MONGO_URI) THEN BOOLEAN ELSE {FALSE}

\* find({}) without the status filter
list_all_games == store

\* GameStore.list_open_games: the documents with status "open", in order
list_open_games == SelectSeq(store, LAMBDA g : g["status"] = "open")

(***************************************************************************)
(* Event record: what the environment handed to the last step (the result *)
(* of the platform, judge and store calls it made).                        *)
(***************************************************************************)
\* no sweep ended with the step, or the one that did: when it had started and
\* whether every call it made succeeded
Unfinished == [ended |-> FALSE, started_at |-> 0, clean |-> FALSE]
Finished(started_at, clean) ==
    [ended |-> TRUE, started_at |-> started_at, clean |-> clean]

\* op, slot, game: the step, the job instance and the game it worked on
\* res:      the result of the call the step awaited
\* kind:     the announcement the step sent to the platform, if any
\* posted:   whether the platform accepted the post
\* store_ok: whether the store served the step's call (TRUE when it made none)
\* replies:  the list the fetch returned
\* tweet_text: the create run's local tweet_text when the run ended
Event(op, slot, game, res) ==
    [op |-> op, slot |-> slot, game |-> game, res |-> res, kind |-> "",
     posted |-> FALSE, store_ok |-> TRUE, replies |-> << >>, sweep |-> Unfinished,
     tweet_text |-> << >>]

(***************************************************************************)
(* Job instances                                                           *)
(***************************************************************************)
CreateSlots == 1 .. 2
SweepSlots == 1 .. 2
\* a second agent process running the close job against the same store
PeerSlot == Cardinality(SweepSlots) + 1
AllSweepSlots == SweepSlots \cup {PeerSlot}

IdleCreate == [pc |-> "idle", game_type |-> "", tweet_text |-> << >>]

IdleSweep ==
    [ pc |-> "idle", open_games |-> << >>, valid_entries |-> << >>,
      winner |-> EmptyDict, kind |-> "", started_at |-> 0, clean |-> TRUE ]

Running(slots, S) == {i \in S : slots[i].pc # "idle"}

NoJob == -1

\* run_scheduler.main lines 66-82: the variables main requires are the six X_*
\* ones; COSMOS_MONGO_URI is not among them
MissingVars(c) == ~c.X_CREDENTIALS

\* sys.exit(1) before the scheduler is created: no job, nothing running
Exited ==
    [ create_game_job |-> NoJob, close_game_job |-> NoJob,
      peer_close_job |-> NoJob, peer_sweeps |-> 0,
      stop_event |-> FALSE, scheduler_running |-> FALSE ]

\* the close job scheduled in the branch that schedules the create job
InitCloseWithCreate ==
    /\ now = 0
    /\ cfg \in Deployments
    /\ jobs = IF MissingVars(cfg) THEN Exited
              ELSE [ create_game_job |->
                       IF cfg.disable_create_game THEN NoJob
                       ELSE IF cfg.create_game_on_startup THEN 0
                       ELSE cfg.START_GAME_SCHEDULE,
                     close_game_job |->
                       IF cfg.disable_create_game THEN NoJob ELSE 0,
                     peer_close_job |-> NoJob,
                     peer_sweeps |-> 0,
                     stop_event |-> FALSE,
                     scheduler_running |-> TRUE ]
    /\ creates = [c \in CreateSlots |-> IdleCreate]
    /\ sweeps = [s \in AllSweepSlots |-> IdleSweep]
    /\ store = << >>
    /\ tweets = << >>
    /\ ev = Event("start", 0, "", "")

\* run_on_startup not looked at: the create job always due at startup
InitCreateAtStartup ==
    /\ now = 0
    /\ cfg \in Deployments
    /\ jobs = IF MissingVars(cfg) THEN Exited
              ELSE [ create_game_job |->
                       IF cfg.disable_create_game THEN NoJob ELSE 0,
                     close_game_job |-> 0,
                     peer_close_job |-> NoJob,
                     peer_sweeps |-> 0,
                     stop_event |-> FALSE,
                     scheduler_running |-> TRUE ]
    /\ creates = [c \in CreateSlots |-> IdleCreate]
    /\ sweeps = [s \in AllSweepSlots |-> IdleSweep]
    /\ store = << >>
    /\ tweets = << >>
    /\ ev = Event("start", 0, "", "")

\* scheduler.schedule_create_game / schedule_close_game, then start(): the
\* state when main() reaches its wait loop
Init ==
    /\ now = 0
    /\ cfg \in Deployments
    /\ jobs = IF MissingVars(cfg) THEN Exited
              ELSE [ create_game_job |->
                       IF cfg.disable_create_game THEN NoJob
                       ELSE IF cfg.create_game_on_startup THEN 0
                       ELSE cfg.START_GAME_SCHEDULE,
                     close_game_job |-> 0,
                     peer_close_job |-> NoJob,
                     peer_sweeps |-> 0,
                     stop_event |-> FALSE,
                     scheduler_running |-> TRUE ]
    /\ creates = [c \in CreateSlots |-> IdleCreate]
    /\ sweeps = [s \in AllSweepSlots |-> IdleSweep]
    /\ store = << >>
    /\ tweets = << >>
    /\ ev = Event("start", 0, "", "")

(***************************************************************************)
(* Scheduler: APScheduler's processing of one due job.                     *)
(***************************************************************************)
\* Job._get_run_times with coalesce: the last fire time that is <= now
LastRunTime(next_run_time, seconds) ==
    next_run_time + ((now - next_run_time) \div seconds) * seconds

\* one instance count shared by both jobs
MaxInstancesReachedShared(running) ==
    Cardinality(Running(creates, CreateSlots))
      + Cardinality(Running(sweeps, AllSweepSlots)) >= max_instances

\* the executor refuses a run while max_instances runs of the job are in flight
MaxInstancesReached(running) == Cardinality(running) >= max_instances

\* a run as late as misfire_grace_time not executed either
MisfiredAtGrace(run_time) == now - run_time >= misfire_grace_time

\* run_coroutine_job: a run later than misfire_grace_time is not executed
Misfired(run_time) == now - run_time > misfire_grace_time

Due(job) == jobs[job] # NoJob /\ now >= jobs[job]

LowestIdle(slots, S) ==
    CHOOSE i \in S \ Running(slots, S) : \A j \in S \ Running(slots, S) : i <= j

(***************************************************************************)
(* run_create_game_agent_task                                              *)
(***************************************************************************)
\* the game announcements published so far
Published == SelectSeq(tweets, LAMBDA t : t.kind = "game")

\* the results post_tweet can return for the next tweet
PostResults(kind, reply_to) ==
    {PostError, PostNoId} \cup
    (IF Len(Published) < MaxGames THEN {PostOk(NewTweet(kind, reply_to))} ELSE {})

\* the check of lines 324-326 left out
PublishAbortsOnErrorOnly(post_result) == "error" \in DOMAIN post_result

\* lines 320-326: the firing returns before the store is touched
PublishAborts(post_result) ==
    \/ "error" \in DOMAIN post_result
    \/ ~Truthy(Get(post_result, "id", None))

\* lines 329-340: close_at from GAME_DURATION, else from a random choice
CloseAtChoices ==
    IF Truthy(cfg.GAME_DURATION)
    THEN {now + IntOf(cfg.GAME_DURATION)}
    ELSE {now + m * 60 : m \in possible_durations}

\* lines 333-334, 338-339: the result time shown, in minutes: the configured
\* seconds divided by 60, else the minutes drawn for close_at
DisplayTime(close_at) ==
    IF Truthy(cfg.GAME_DURATION)
    THEN ResultTime(IntOf(cfg.GAME_DURATION) \div 60)
    ELSE ResultTime((close_at - now) \div 60)

\* the create job comes due: the scheduler starts, skips or drops the run;
\* a started run executes choose_game and reaches "await post_tweet"
ScheduleCreate ==
    /\ Due("create_game_job")
    /\ LET run_time == LastRunTime(jobs.create_game_job, cfg.START_GAME_SCHEDULE) IN
       /\ jobs' = [jobs EXCEPT !.create_game_job = run_time + cfg.START_GAME_SCHEDULE]
       /\ IF MaxInstancesReached(Running(creates, CreateSlots))
          THEN /\ ev' = Event("create_job", 0, "", "max_instances")
               /\ UNCHANGED creates
          ELSE IF Misfired(run_time)
          THEN /\ ev' = Event("create_job", 0, "", "missed")
               /\ UNCHANGED creates
          ELSE \E game_type \in GAME_TYPES :
                 LET c == LowestIdle(creates, CreateSlots) IN
                 /\ creates' = [creates EXCEPT ![c] =
                        [pc |-> "post", game_type |-> game_type,
                         tweet_text |-> choose_game(game_type)]]
                 /\ ev' = Event("create_job", c, "", "started")
    /\ UNCHANGED <<now, cfg, sweeps, store, tweets>>

\* what the platform answered, in the event's terms
PostOutcome(post_result) ==
    IF "error" \in DOMAIN post_result THEN "publish_error"
    ELSE IF Get(post_result, "id", "") = "" THEN "no_tweet_id"
    ELSE "published"

\* the store opened before the announcement is published: nothing is
\* published when the store cannot be used
CreatePostStoreFirst(c) ==
    /\ creates[c].pc = "post"
    /\ creates' = [creates EXCEPT ![c] = IdleCreate]
    /\ \E post_result \in PostResults("game", None), store_ok \in StoreAnswers :
         /\ tweets' = IF PostOutcome(post_result) = "published" /\ store_ok
                       THEN Append(tweets, GameTweet(creates[c].tweet_text))
                       ELSE tweets
         /\ IF PublishAborts(post_result)
            THEN /\ store_ok = Truthy(cfg.COSMOS_MONGO_URI)
                 /\ ev' = [Event("create", c, "", PostOutcome(post_result))
                             EXCEPT !.tweet_text = creates[c].tweet_text]
                 /\ UNCHANGED store
            ELSE \E close_at \in CloseAtChoices, created_at \in LaterNow :
                   /\ ev' = [Event("create", c, NewGameId, PostOutcome(post_result))
                               EXCEPT !.store_ok = store_ok,
                                      !.posted = PostOutcome(post_result) = "published",
                                      !.tweet_text =
                                         format(creates[c].tweet_text,
                                                DisplayTime(close_at))]
                   /\ store' = IF store_ok
                                THEN create_game(NewGameId, post_result.id,
                                                 creates[c].game_type, close_at,
                                                 created_at)
                                ELSE store
    /\ UNCHANGED <<now, cfg, jobs, sweeps>>

\* post_tweet returns; on success close_at is computed and the game inserted
CreatePost(c) ==
    /\ creates[c].pc = "post"
    /\ creates' = [creates EXCEPT ![c] = IdleCreate]
    /\ \E post_result \in PostResults("game", None), store_ok \in StoreAnswers :
         /\ tweets' = IF PostOutcome(post_result) = "published"
                       THEN Append(tweets, GameTweet(creates[c].tweet_text))
                       ELSE tweets
         /\ IF PublishAborts(post_result)
            THEN /\ store_ok = Truthy(cfg.COSMOS_MONGO_URI)
                 /\ ev' = [Event("create", c, "", PostOutcome(post_result))
                             EXCEPT !.tweet_text = creates[c].tweet_text]
                 /\ UNCHANGED store
            ELSE \E close_at \in CloseAtChoices, created_at \in LaterNow :
                   /\ ev' = [Event("create", c, NewGameId, PostOutcome(post_result))
                               EXCEPT !.store_ok = store_ok,
                                      !.posted = PostOutcome(post_result) = "published",
                                      !.tweet_text =
                                         format(creates[c].tweet_text,
                                                DisplayTime(close_at))]
                   /\ store' = IF store_ok
                                THEN create_game(NewGameId, post_result.id,
                                                 creates[c].game_type, close_at,
                                                 created_at)
                                ELSE store
    /\ UNCHANGED <<now, cfg, jobs, sweeps>>

(***************************************************************************)
(* Replies and the entry validator                                         *)
(***************************************************************************)
\* A text is the sequence of its words: the maximal runs of word characters
\* (letters, digits, underscore), which is where the pattern's \b can match.
\* The words texts are made of:
\*   "W1", "W2": base58 strings of 32..44 characters that decode to 32 bytes
\*   "X1":       a base58 string of 32..44 characters that decodes to 31 bytes
\*   "Y1":       a base58 string of 44 characters that decodes to 33 bytes
\*   "_W1":      the string W1 with an underscore before it, in one word
\*   "gm":       a word too short to match the pattern
Words == {"gm", "W1", "W2", "X1", "Y1", "_W1"}

\* line 63: \b[1-9A-HJ-NP-Za-km-z]{32,44}\b matches a whole word of 32 to 44
\* characters of the alphabet
MatchesPattern(tok) == tok \in {"W1", "W2", "X1", "Y1"}
\* len(base58.b58decode(candidate))
b58decode_len(tok) ==
    IF tok \in {"W1", "W2"} THEN 32 ELSE IF tok = "Y1" THEN 32 + 1 ELSE 31

\* candidates of 32 bytes or more taken for addresses
extract_at_least_32_bytes(text) ==
    {text[i] : i \in {j \in DOMAIN text :
                        MatchesPattern(text[j]) /\ b58decode_len(text[j]) >= 32}}

\* the candidates of the text taken without decoding them
extract_by_pattern_only(text) ==
    {text[i] : i \in {j \in DOMAIN text : MatchesPattern(text[j])}}

\* utils.extract_solana_addresses: the set of valid candidates of the text
extract_solana_addresses(text) ==
    {text[i] : i \in {j \in DOMAIN text :
                        MatchesPattern(text[j]) /\ b58decode_len(text[j]) = 32}}

Alice == [username |-> "alice", name |-> "Alice",
          profile_image_url |-> "img_a", verified |-> TRUE]
Bob == [username |-> "bob", name |-> "Bob",
        profile_image_url |-> "img_b", verified |-> FALSE]

\* the replies the platform can hold for a conversation (tweet.data dicts);
\* the third has no "author" key (its user was not in the includes)
Replies ==
    { [id |-> "r1", text |-> <<"gm", "X1">>, author_id |-> "u1", author |-> Alice],
      [id |-> "r2", text |-> <<"W1">>, author_id |-> "u2", author |-> Bob],
      [id |-> "r3", text |-> <<"gm", "W2">>, author_id |-> "u3"] }

RateLimitMessage == "Twitter API error: 429 Too Many Requests"
OtherErrorMessage == "Failed to fetch replies: timeout"

\* "429" in error_message
Has429(error_message) == error_message = RateLimitMessage

RECURSIVE ReplyLists(_)
ReplyLists(n) ==
    IF n = 0 THEN {<< >>}
    ELSE LET shorter == ReplyLists(n - 1) IN
         shorter \cup
         {Append(l, r) : l \in {x \in shorter : Len(x) = n - 1},
                         r \in Replies}

Distinct(l) == \A i, j \in DOMAIN l : l[i].id = l[j].id => i = j

\* tools.find_answers_with_conversation_id: a list of replies, or a
\* one-element list holding an error dict
FetchResults ==
    {l \in ReplyLists(MaxReplies) : Distinct(l)}
    \cup {<<[error |-> RateLimitMessage]>>, <<[error |-> OtherErrorMessage]>>}

\* only the rate-limit error is taken for an error
IsRateLimitError(replies) ==
    Len(replies) > 0 /\ Has429(Get(replies[1], "error", None))

\* line 219: replies and isinstance(replies, list) and replies[0].get("error")
IsFetchError(replies) ==
    Len(replies) > 0 /\ Truthy(Get(replies[1], "error", None))

\* lines 247-252: the entry of a reply, for the address next(iter(addresses)) gave
Entry(reply, wallet) ==
    [ wallet   |-> wallet,
      text     |-> Get(reply, "text", << >>),
      reply_id |-> Get(reply, "id", None),
      author   |-> Get(reply, "author", EmptyDict) ]

\* each entry put at the front of the list
RECURSIVE ValidEntriesNewestFirst(_)
ValidEntriesNewestFirst(replies) ==
    IF replies = << >> THEN {<< >>}
    ELSE LET reply == Head(replies)
             addresses == extract_solana_addresses(Get(reply, "text", << >>))
             rest == ValidEntriesNewestFirst(Tail(replies))
         IN  IF addresses = {} THEN rest
             ELSE {l \o <<Entry(reply, w)>> : w \in addresses, l \in rest}

\* lines 240-252: the lists valid_entries can be for the replies; iteration
\* order of a set decides which address of a reply is taken
RECURSIVE ValidEntries(_)
ValidEntries(replies) ==
    IF replies = << >> THEN {<< >>}
    ELSE LET reply == Head(replies)
             addresses == extract_solana_addresses(Get(reply, "text", << >>))
             rest == ValidEntries(Tail(replies))
         IN  IF addresses = {} THEN rest
             ELSE {<<Entry(reply, w)>> \o l : w \in addresses, l \in rest}

(***************************************************************************)
(* select_winner_llm                                                       *)
(***************************************************************************)
WinnerResponse(wallet, reply_id) ==
    [ result |-> [wallet |-> wallet, reply_id |-> reply_id],
      chain_of_thought |-> "because" ]

\* what the structured model can answer: any two strings; the model draws an
\* entry's pair, an empty wallet with or without an entry's reply id, and a
\* pair that names no entry
JudgeVerdicts(entries) ==
    {WinnerResponse(e.wallet, e.reply_id) : e \in {entries[i] : i \in DOMAIN entries}}
    \cup {WinnerResponse("", ""), WinnerResponse("", entries[1].reply_id),
          WinnerResponse("W9", "r9")}

\* lines 177-186: ainvoke is awaited outside the try, so a response that cannot
\* be parsed raises out of select_winner_llm; the except clause guards only
\* "return response", which cannot raise
ParseFailure == [raised |-> "OutputParserException"]
select_winner_llm(game_type, entries) ==
    JudgeVerdicts(entries) \cup {ParseFailure}

\* winner.result.wallet.strip()
Strip(wallet) == IF wallet = " " THEN "" ELSE wallet

(***************************************************************************)
(* run_close_game_agent_task                                               *)
(***************************************************************************)
\* only a missing close_at keeps a game out of the sweep
NotReadyMissingOnly(game) == Get(game, "close_at", -1) = -1

\* only the comparison with the clock: a game without close_at counts as due
NotReadyFutureOnly(game) == now < Get(game, "close_at", -1)

\* lines 210-212: not close_at or datetime.now() < close_at; game.get gives
\* None, written -1 among times, for a close_at that is absent or null
NotReady(game) ==
    LET close_at == Get(game, "close_at", -1) IN
    close_at = -1 \/ now < close_at

\* the for loop up to the next game that is ready to close
RECURSIVE SkipNotReady(_)
SkipNotReady(games) ==
    IF games = << >> THEN << >>
    ELSE IF NotReady(Head(games)) THEN SkipNotReady(Tail(games))
    ELSE games

\* the open games listed again after every game
ContinueRelisting(sw, clean) ==
    LET others == SelectSeq(list_open_games,
                     LAMBDA g : g["game_id"] # Head(sw.open_games)["game_id"])
        rest == SkipNotReady(others)
    IN
    IF rest = << >> THEN IdleSweep
    ELSE [ IdleSweep EXCEPT !.pc = "fetch", !.open_games = rest,
                            !.started_at = sw.started_at, !.clean = clean ]

\* the sweep goes on with the games after the current one, or ends
Continue(sw, clean) ==
    LET rest == SkipNotReady(Tail(sw.open_games)) IN
    IF rest = << >> THEN IdleSweep
    ELSE [ IdleSweep EXCEPT !.pc = "fetch", !.open_games = rest,
                            !.started_at = sw.started_at, !.clean = clean ]

\* an exception leaves the job body: the rest of the list is not processed
Raise(sw) == IdleSweep

\* what the step reports of the sweep, given the slot it leaves behind
Report(sw, after, clean) ==
    IF after.pc = "idle" THEN Finished(sw.started_at, clean) ELSE Unfinished

\* close_game_no_winner: the fields it sets
NoWinnerFields(post_announcement) ==
    [ status             |-> "closed",
      winner_tweet_id    |-> Get(post_announcement, "id", ""),
      winner_wallet      |-> "",
      chain_of_thought   |-> "",
      winning_tweet_text |-> << >> ]

\* line 288: next((entry for entry in valid_entries if ...), {})
WinningEntry(valid_entries, reply_id) ==
    LET hits == {i \in DOMAIN valid_entries : valid_entries[i].reply_id = reply_id}
    IN  IF hits = {} THEN EmptyDict
        ELSE valid_entries[CHOOSE i \in hits : \A j \in hits : i <= j]

\* lines 287-307: the fields the winner branch sets
WinnerFields(post_announcement, winner, valid_entries) ==
    LET winning_entry == WinningEntry(valid_entries, winner.result.reply_id)
        author == Get(winning_entry, "author", EmptyDict)
    IN  [ status             |-> "closed",
          winner_tweet_id    |-> Get(post_announcement, "id", None),
          winner_wallet      |-> winner.result.wallet,
          chain_of_thought   |-> winner.chain_of_thought,
          winning_tweet_text |-> Get(winning_entry, "text", << >>),
          winner_username    |-> Get(author, "username", ""),
          winner_name        |-> Get(author, "name", ""),
          winner_image_url   |-> Get(author, "profile_image_url", ""),
          winner_author_id   |-> Get(winning_entry, "author_id", ""),
          winner_is_verified |-> Get(author, "verified", FALSE) ]

\* the sweep of slot s starts: the open games are listed and the loop runs to
\* the first "await find_answers_with_conversation_id"
StartSweep(s, store_ok) ==
    LET games == IF store_ok THEN SkipNotReady(list_open_games) ELSE << >>
        started == [ IdleSweep EXCEPT !.pc = "fetch", !.open_games = games,
                                      !.started_at = now ]
    IN
    /\ sweeps' = IF games = << >> THEN sweeps ELSE [sweeps EXCEPT ![s] = started]
    /\ ev' = [Event("close_job", s, "", "started")
                EXCEPT !.store_ok = store_ok,
                       !.sweep = IF games = << >> THEN Finished(now, store_ok)
                                 ELSE Unfinished]

\* a close job comes due: its scheduler starts, skips or drops the run
ScheduleCloseJob(job, slots) ==
    /\ Due(job)
    /\ LET run_time == LastRunTime(jobs[job], cfg.CLOSE_GAME_SCHEDULE) IN
       /\ jobs' = [jobs EXCEPT
                     ![job] = run_time + cfg.CLOSE_GAME_SCHEDULE,
                     !.peer_sweeps = IF job = "peer_close_job" THEN @ + 1 ELSE @]
       /\ IF MaxInstancesReached(Running(sweeps, slots))
          THEN /\ ev' = Event("close_job", 0, "", "max_instances")
               /\ UNCHANGED sweeps
          ELSE IF Misfired(run_time)
          THEN /\ ev' = Event("close_job", 0, "", "missed")
               /\ UNCHANGED sweeps
          ELSE \E store_ok \in StoreAnswers :
                 StartSweep(LowestIdle(sweeps, slots), store_ok)
    /\ UNCHANGED <<now, cfg, creates, store, tweets>>

ScheduleClose == ScheduleCloseJob("close_game_job", SweepSlots)

\* what the fetch returned, in the event's terms
FetchOutcome(replies) ==
    IF replies = << >> THEN "no_replies"
    ELSE IF "error" \in DOMAIN replies[1]
    THEN (IF replies[1]["error"] = RateLimitMessage THEN "rate_limit"
          ELSE "fetch_error")
    ELSE "replies"

\* the check of lines 255-264 left out: the judge is asked even when no reply
\* holds a valid address
SweepFetchJudgesEmpty(s) ==
    LET sw == sweeps[s]
        game == Head(sw.open_games)
    IN
    /\ sw.pc = "fetch"
    /\ \E replies \in FetchResults :
         LET clean == sw.clean /\ FetchOutcome(replies) \in {"no_replies", "replies"}
         IN
         IF IsFetchError(replies)
         THEN /\ sweeps' = [sweeps EXCEPT ![s] = Continue(sw, clean)]
              /\ ev' = [Event("fetch", s, game["game_id"], FetchOutcome(replies))
                          EXCEPT !.replies = replies,
                                 !.sweep = Report(sw, Continue(sw, clean), clean)]
         ELSE /\ ev' = [Event("fetch", s, game["game_id"], FetchOutcome(replies))
                          EXCEPT !.replies = replies]
              /\ IF replies = << >>
                 THEN sweeps' = [sweeps EXCEPT ![s].pc = "announce",
                                               ![s].kind = "no_replies",
                                               ![s].clean = clean]
                 ELSE \E valid_entries \in ValidEntries(replies) :
                        sweeps' = [sweeps EXCEPT ![s].pc = "judge",
                                      ![s].valid_entries = valid_entries,
                                      ![s].clean = clean]
    /\ UNCHANGED <<now, cfg, jobs, creates, store, tweets>>

\* find_answers_with_conversation_id returns; the entries are validated
SweepFetch(s) ==
    LET sw == sweeps[s]
        game == Head(sw.open_games)
    IN
    /\ sw.pc = "fetch"
    /\ \E replies \in FetchResults :
         LET clean == sw.clean /\ FetchOutcome(replies) \in {"no_replies", "replies"}
         IN
         IF IsFetchError(replies)
         THEN /\ sweeps' = [sweeps EXCEPT ![s] = Continue(sw, clean)]
              /\ ev' = [Event("fetch", s, game["game_id"], FetchOutcome(replies))
                          EXCEPT !.replies = replies,
                                 !.sweep = Report(sw, Continue(sw, clean), clean)]
         ELSE /\ ev' = [Event("fetch", s, game["game_id"], FetchOutcome(replies))
                          EXCEPT !.replies = replies]
              /\ IF replies = << >>
                 THEN sweeps' = [sweeps EXCEPT ![s].pc = "announce",
                                               ![s].kind = "no_replies",
                                               ![s].clean = clean]
                 ELSE \E valid_entries \in ValidEntries(replies) :
                        IF valid_entries = << >>
                        THEN sweeps' = [sweeps EXCEPT ![s].pc = "announce",
                                                      ![s].kind = "no_valid_wallet",
                                                      ![s].clean = clean]
                        ELSE sweeps' = [sweeps EXCEPT ![s].pc = "judge",
                                           ![s].valid_entries = valid_entries,
                                           ![s].clean = clean]
    /\ UNCHANGED <<now, cfg, jobs, creates, store, tweets>>

\* the game closed as soon as the verdict is in, before the announcement
SweepJudgePersistsFirst(s) ==
    LET sw == sweeps[s]
        game == Head(sw.open_games)
    IN
    /\ sw.pc = "judge"
    /\ \E winner \in select_winner_llm(game["game_type"], sw.valid_entries) :
         IF "raised" \in DOMAIN winner
         THEN /\ sweeps' = [sweeps EXCEPT ![s] = Raise(sw)]
              /\ ev' = [Event("judge", s, game["game_id"], "parse_failure")
                          EXCEPT !.sweep = Finished(sw.started_at, FALSE)]
         ELSE /\ sweeps' = [sweeps EXCEPT
                    ![s].pc = "announce",
                    ![s].winner = winner,
                    ![s].kind = IF Strip(winner.result.wallet) = ""
                                THEN "no_impressive" ELSE "winner"]
              /\ ev' = Event("judge", s, game["game_id"], "verdict")
    /\ store' = update_game(sweeps[s].open_games[1]["game_id"],
                            [status |-> "closed"])
    /\ UNCHANGED <<now, cfg, jobs, creates, tweets>>

\* select_winner_llm returns or raises; the announcement text is chosen
SweepJudge(s) ==
    LET sw == sweeps[s]
        game == Head(sw.open_games)
    IN
    /\ sw.pc = "judge"
    /\ \E winner \in select_winner_llm(game["game_type"], sw.valid_entries) :
         IF "raised" \in DOMAIN winner
         THEN /\ sweeps' = [sweeps EXCEPT ![s] = Raise(sw)]
              /\ ev' = [Event("judge", s, game["game_id"], "parse_failure")
                          EXCEPT !.sweep = Finished(sw.started_at, FALSE)]
         ELSE /\ sweeps' = [sweeps EXCEPT
                    ![s].pc = "announce",
                    ![s].winner = winner,
                    ![s].kind = IF Strip(winner.result.wallet) = ""
                                THEN "no_impressive" ELSE "winner"]
              /\ ev' = Event("judge", s, game["game_id"], "verdict")
    /\ UNCHANGED <<now, cfg, jobs, creates, store, tweets>>

\* close_game_no_winner not called in the no-winner branches
ClosesGameWinnerOnly(kind, post_announcement) ==
    kind \in {"winner", "no_impressive"} /\ ~("error" \in DOMAIN post_announcement)

\* every branch closing only when its post succeeded
ClosesGameOnPostOnly(kind, post_announcement) ==
    ~("error" \in DOMAIN post_announcement)

\* lines 235-236, 262-263: the no-winner branches close whatever the post returned
\* lines 283-307: the winner branch updates the game only when the post succeeded
ClosesGame(kind, post_announcement) ==
    IF kind \in {"no_replies", "no_valid_wallet"}
    THEN TRUE
    ELSE ~("error" \in DOMAIN post_announcement)

ClosingFields(sw, post_announcement) ==
    IF sw.kind \in {"no_replies", "no_valid_wallet"}
    THEN NoWinnerFields(post_announcement)
    ELSE WinnerFields(post_announcement, sw.winner, sw.valid_entries)

\* reply_to_tweet returns; the game is updated, or the error is logged
SweepAnnounce(s) ==
    LET sw == sweeps[s]
        game == Head(sw.open_games)
        reply == NewTweet(sw.kind, game["tweet_id"])
    IN
    /\ sw.pc = "announce"
    /\ \E post_announcement \in {PostOk(reply), PostError}, store_ok \in StoreAnswers :
         LET posted == ~("error" \in DOMAIN post_announcement)
             clean == sw.clean /\ posted /\ store_ok
             event == [Event("announce", s, game["game_id"], "returned")
                         EXCEPT !.kind = sw.kind, !.posted = posted,
                                !.store_ok = store_ok]
         IN
         /\ tweets' = IF posted THEN Append(tweets, reply) ELSE tweets
         /\ IF ClosesGame(sw.kind, post_announcement)
            THEN IF store_ok
                 THEN /\ store' = update_game(game["game_id"],
                                      ClosingFields(sw, post_announcement))
                      /\ sweeps' = [sweeps EXCEPT ![s] = Continue(sw, clean)]
                      /\ ev' = [event EXCEPT
                                  !.sweep = Report(sw, Continue(sw, clean), clean)]
                 ELSE /\ store' = failed_update(game["game_id"],
                                      ClosingFields(sw, post_announcement))
                      /\ sweeps' = [sweeps EXCEPT ![s] = Raise(sw)]
                      /\ ev' = [event EXCEPT
                                  !.sweep = Finished(sw.started_at, FALSE)]
            ELSE /\ store_ok
                 /\ UNCHANGED store
                 /\ sweeps' = [sweeps EXCEPT ![s] = Continue(sw, clean)]
                 /\ ev' = [event EXCEPT
                             !.sweep = Report(sw, Continue(sw, clean), clean)]
    /\ UNCHANGED <<now, cfg, jobs, creates>>

\* the close job of a second agent process, started with the same settings
PeerScheduleClose ==
    /\ jobs.peer_sweeps < MaxPeerSweeps
    /\ ScheduleCloseJob("peer_close_job", {PeerSlot})

Tick ==
    /\ now < MaxTime
    /\ now' = now + TickSeconds
    /\ ev' = Event("tick", 0, "", "")
    /\ UNCHANGED <<cfg, jobs, creates, sweeps, store, tweets>>

Next ==
    \/ Tick
    \/ ScheduleCreate
    \/ \E c \in CreateSlots : CreatePost(c)
    \/ ScheduleClose
    \/ \E s \in AllSweepSlots : SweepFetch(s)
    \/ \E s \in AllSweepSlots : SweepJudge(s)
    \/ \E s \in AllSweepSlots : SweepAnnounce(s)

Spec == Init /\ [][Next]_vars

\* two agent processes share the store
NextOverlap == Next \/ PeerScheduleClose

InitOverlap ==
    /\ now = 0
    /\ cfg \in {c \in Deployments : /\ c.create_game_on_startup
                                    /\ c.GAME_DURATION # ""
                                    /\ c.X_CREDENTIALS
                                    /\ c.COSMOS_MONGO_URI # ""}
    /\ jobs = [ create_game_job |->
                  IF cfg.disable_create_game THEN NoJob
                  ELSE IF cfg.create_game_on_startup THEN 0
                  ELSE cfg.START_GAME_SCHEDULE,
                close_game_job |-> 0,
                peer_close_job |-> 0,
                peer_sweeps |-> 0,
                stop_event |-> FALSE,
                scheduler_running |-> TRUE ]
    /\ creates = [c \in CreateSlots |-> IdleCreate]
    /\ sweeps = [s \in AllSweepSlots |-> IdleSweep]
    /\ store = << >>
    /\ tweets = << >>
    /\ ev = Event("start", 0, "", "")

SpecOverlap == InitOverlap /\ [][NextOverlap]_vars

(***************************************************************************)
(* Shutdown                                                                *)
(***************************************************************************)
\* signal_handler: SIGINT or SIGTERM sets stop_event; main's wait loop looks at
\* it once a second, so the scheduler keeps firing until main wakes up
Signal ==
    /\ ~jobs.stop_event
    /\ jobs.scheduler_running
    /\ jobs' = [jobs EXCEPT !.stop_event = TRUE]
    /\ ev' = Event("signal", 0, "", "")
    /\ UNCHANGED <<now, cfg, creates, sweeps, store, tweets>>

\* the job bodies main's coroutine can find in flight: a body gives up the
\* event loop only inside structured_model.ainvoke (the platform tools are
\* coroutines without an await of their own), so a create run is never found
\* in flight and a sweep only while it waits for the judge
Suspended ==
    /\ \A c \in CreateSlots : creates[c].pc = "idle"
    /\ \A s \in SweepSlots : sweeps[s].pc \in {"idle", "judge"}

\* main leaves the wait loop and calls AgentScheduler.stop():
\* scheduler.shutdown(wait=True) removes the timer, and the AsyncIOExecutor,
\* which cannot wait inside a synchronous call, cancels the futures of the job
\* coroutines still pending; asyncio.run then ends the loop
Stop ==
    /\ jobs.stop_event
    /\ jobs.scheduler_running
    /\ Suspended
    /\ jobs' = [jobs EXCEPT !.create_game_job = NoJob, !.close_game_job = NoJob,
                            !.scheduler_running = FALSE]
    /\ sweeps' = [s \in AllSweepSlots |->
                    IF s \in SweepSlots THEN IdleSweep ELSE sweeps[s]]
    /\ ev' = Event("stop", 0, "",
                   IF Running(sweeps, SweepSlots) = {} THEN "none" ELSE "cancelled")
    /\ UNCHANGED <<now, cfg, creates, store, tweets>>

NextShutdown == Next \/ Signal \/ Stop

SpecShutdown == Init /\ [][NextShutdown]_vars

(***************************************************************************)
(* The scheduler under a clock read every second: the event loop may be    *)
(* held up for any number of seconds before a due job is processed.        *)
(***************************************************************************)
Second ==
    /\ now < MaxDelay
    /\ now' = now + 1
    /\ ev' = Event("tick", 0, "", "")
    /\ UNCHANGED <<cfg, jobs, creates, sweeps, store, tweets>>

NextMisfire ==
    \/ Second
    \/ ScheduleCreate
    \/ \E c \in CreateSlots : CreatePost(c)
    \/ ScheduleClose

SpecMisfire == Init /\ [][NextMisfire]_vars

(***************************************************************************)
(* The entry validator on its own: extract_solana_addresses and the loop  *)
(* of lines 240-252 applied to one or two replies with any texts.          *)
(***************************************************************************)
RECURSIVE TextsUpTo(_)
TextsUpTo(n) ==
    IF n = 0 THEN {<< >>}
    ELSE LET shorter == TextsUpTo(n - 1) IN
         shorter \cup {Append(t, w) : t \in {x \in shorter : Len(x) = n - 1},
                                      w \in Words}

Texts == TextsUpTo(MaxWords)

\* the reply lists the validator is given: one reply, or two
ValidatorInputs ==
    {<<[id |-> "r1", text |-> t, author_id |-> "u1", author |-> Alice]>> :
        t \in Texts}
    \cup {<<[id |-> "r1", text |-> t, author_id |-> "u1", author |-> Alice],
            [id |-> "r2", text |-> u, author_id |-> "u2"]>> :
            t \in Texts, u \in Texts}

InitValidator ==
    /\ now = 0
    /\ cfg \in {c \in Deployments : MissingVars(c)}
    /\ jobs = Exited
    /\ creates = [c \in CreateSlots |-> IdleCreate]
    /\ sweeps = [s \in AllSweepSlots |-> IdleSweep]
    /\ store = << >>
    /\ tweets = << >>
    /\ \E replies \in ValidatorInputs :
         ev = [op |-> "input", replies |-> replies,
               addresses |-> [i \in DOMAIN replies |-> {}],
               valid_entries |-> << >>]

\* lines 240-252 run over the replies
Validate ==
    /\ ev.op = "input"
    /\ \E valid_entries \in ValidEntries(ev.replies) :
         ev' = [op |-> "validated", replies |-> ev.replies,
                addresses |-> [i \in DOMAIN ev.replies |->
                                 extract_solana_addresses(ev.replies[i].text)],
                valid_entries |-> valid_entries]
    /\ UNCHANGED <<now, cfg, jobs, creates, sweeps, store, tweets>>

SpecValidator == InitValidator /\ [][Validate]_vars

(***************************************************************************)
(* A deployment that opens a game every 120 seconds: two games can be due  *)
(* in one sweep.                                                           *)
(***************************************************************************)
InitFrequent ==
    /\ now = 0
    /\ cfg \in {c \in Configs :
                  /\ c.START_GAME_SCHEDULE = 120 /\ c.CLOSE_GAME_SCHEDULE = 120
                  /\ c.GAME_DURATION = "100"
                  /\ c.create_game_on_startup /\ ~c.disable_create_game
                  /\ c.X_CREDENTIALS /\ c.COSMOS_MONGO_URI # ""}
    /\ jobs = [ create_game_job |-> 0,
                close_game_job |-> 0,
                peer_close_job |-> NoJob,
                peer_sweeps |-> 0,
                stop_event |-> FALSE,
                scheduler_running |-> TRUE ]
    /\ creates = [c \in CreateSlots |-> IdleCreate]
    /\ sweeps = [s \in AllSweepSlots |-> IdleSweep]
    /\ store = << >>
    /\ tweets = << >>
    /\ ev = Event("start", 0, "", "")

SpecFrequent == InitFrequent /\ [][Next]_vars

(***************************************************************************)
(* A process started against a store that holds an open game left by an   *)
(* earlier run and already due: the first sweep has a game to close while  *)
(* the create job fires.                                                   *)
(***************************************************************************)
InitRestart ==
    /\ now = 0
    /\ cfg \in {c \in Deployments :
                  /\ c.CLOSE_GAME_SCHEDULE = 120 /\ c.GAME_DURATION = "100"
                  /\ c.create_game_on_startup /\ ~c.disable_create_game
                  /\ c.X_CREDENTIALS /\ c.COSMOS_MONGO_URI # ""}
    /\ jobs = [ create_game_job |-> 0,
                close_game_job |-> 0,
                peer_close_job |-> NoJob,
                peer_sweeps |-> 0,
                stop_event |-> FALSE,
                scheduler_running |-> TRUE ]
    /\ creates = [c \in CreateSlots |-> IdleCreate]
    /\ sweeps = [s \in AllSweepSlots |-> IdleSweep]
    /\ tweets = <<[id |-> TweetId(1), kind |-> "game", reply_to |-> None,
                   text |-> choose_game("fun_fact")]>>
    /\ store = <<GameDoc("g1", TweetId(1), "fun_fact",
                         0, 0 - IntOf(cfg.GAME_DURATION))>>
    /\ ev = Event("start", 0, "", "")

\* the process watched up to its second sweep: the clock moves once
NextRestart ==
    \/ Tick /\ now < TickSeconds
    \/ ScheduleCreate
    \/ \E c \in CreateSlots : CreatePost(c)
    \/ ScheduleClose
    \/ \E s \in AllSweepSlots : SweepFetch(s)
    \/ \E s \in AllSweepSlots : SweepJudge(s)
    \/ \E s \in AllSweepSlots : SweepAnnounce(s)

SpecRestart == InitRestart /\ [][NextRestart]_vars

(***************************************************************************)
(* A store that also holds open records without a usable close_at, written *)
(* by other means than create_game: one lacks the key, one holds null.     *)
(* A third record, left by an earlier run, is due.                         *)
(***************************************************************************)
WithoutKey(d, key) == [k \in DOMAIN d \ {key} |-> d[k]]

InitLegacy ==
    /\ now = 0
    /\ cfg \in {c \in Deployments :
                  /\ c.CLOSE_GAME_SCHEDULE = 120 /\ c.GAME_DURATION = "100"
                  /\ c.X_CREDENTIALS /\ c.COSMOS_MONGO_URI # ""}
    /\ jobs = [ create_game_job |->
                  IF cfg.disable_create_game THEN NoJob
                  ELSE IF cfg.create_game_on_startup THEN 0
                  ELSE cfg.START_GAME_SCHEDULE,
                close_game_job |-> 0,
                peer_close_job |-> NoJob,
                peer_sweeps |-> 0,
                stop_event |-> FALSE,
                scheduler_running |-> TRUE ]
    /\ creates = [c \in CreateSlots |-> IdleCreate]
    /\ sweeps = [s \in AllSweepSlots |-> IdleSweep]
    /\ tweets = [n \in 1 .. 3 |-> [id |-> TweetId(n), kind |-> "game",
                                    reply_to |-> None,
                                    text |-> choose_game("fun_fact")]]
    /\ store = << WithoutKey(GameDoc("g1", TweetId(1), "fun_fact", -1, 0),
                             "close_at"),
                  GameDoc("g2", TweetId(2), "fun_fact", -1, 0),
                  GameDoc("g3", TweetId(3), "fun_fact",
                          0, 0 - IntOf(cfg.GAME_DURATION)) >>
    /\ ev = Event("start", 0, "", "")

SpecLegacy == InitLegacy /\ [][Next]_vars

(***************************************************************************)
(* Properties                                                              *)
(***************************************************************************)
\* the stored document of a game
Doc(game_id) == store[CHOOSE i \in DOMAIN store : store[i]["game_id"] = game_id]

OpenIds(docs) == {docs[i]["game_id"] : i \in {j \in DOMAIN docs : docs[j]["status"] = "open"}}
ClosedDocs == {i \in DOMAIN store : store[i]["status"] = "closed"}

WinnerKeys ==
    {"winner_tweet_id", "winner_wallet", "chain_of_thought", "winning_tweet_text",
     "winner_username", "winner_name", "winner_image_url", "winner_author_id",
     "winner_is_verified"}
WinnerPart(doc) == [k \in WinnerKeys \cap DOMAIN doc |-> doc[k]]

\* the step that has just run is the final announcement of a judged game
JudgedAnnounce == ev.op = "announce" /\ ev.kind \in {"winner", "no_impressive"}

\* C1: when the final announcement post of a judged game reports an error, the
\* game record is still updated to closed by that step of the sweep.
C1_AnnounceErrorStillCloses ==
    (JudgedAnnounce /\ ~ev.posted /\ ev.store_ok)
        => Doc(ev.game)["status"] = "closed"

\* C2: a game that is closed is not selected by any sweep: it is in no sweep's
\* list (so nothing is fetched, judged or announced for it), no reply to its
\* tweet is posted and its record never changes again (so it closes once).
C2_ClosedGameNotSelected ==
    [][\A i \in ClosedDocs :
         /\ store'[i] = store[i]
         /\ \A s \in AllSweepSlots : \A k \in DOMAIN sweeps'[s].open_games :
                sweeps'[s].open_games[k]["game_id"] # store[i]["game_id"]
         /\ \A k \in DOMAIN tweets' :
                k > Len(tweets) => tweets'[k].reply_to # store[i]["tweet_id"]
      ]_vars

\* a sweep has just listed the open games while a closed game is in the store
C2_Witness ==
    /\ ev.op = "close_job" /\ ev.res = "started" /\ ev.store_ok
    /\ ClosedDocs # {}

\* C3: when the fetch for a game returns an error, the step writes nothing to
\* the store, posts nothing, leaves the sweep without that game (no judge call,
\* no announcement) and the game stays open, so the next sweep lists it again.
C3_FetchErrorSkipsGame ==
    [][(ev'.op = "fetch" /\ ev'.res \in {"rate_limit", "fetch_error"}) =>
         /\ store' = store
         /\ tweets' = tweets
         /\ ev'.game \in OpenIds(store')
         /\ sweeps'[ev'.slot].pc \in {"idle", "fetch"}
         /\ \A k \in DOMAIN sweeps'[ev'.slot].open_games :
                sweeps'[ev'.slot].open_games[k]["game_id"] # ev'.game
      ]_vars

\* a fetch has just returned a rate-limit error for an open game
C3_Witness ==
    ev.op = "fetch" /\ ev.res = "rate_limit" /\ ev.game \in OpenIds(store)

\* C4: when the judge's answer cannot be parsed, select_winner_llm returns the
\* first entry of the list and nothing is raised: the sweep goes on to announce
\* that entry.
C4_FallbackOnParseFailure ==
    (ev.op = "judge" /\ ev.res = "parse_failure") =>
        /\ sweeps[ev.slot].pc = "announce"
        /\ sweeps[ev.slot].winner["result"]["wallet"]
              = sweeps[ev.slot].valid_entries[1].wallet
        /\ sweeps[ev.slot].winner["result"]["reply_id"]
              = sweeps[ev.slot].valid_entries[1].reply_id

\* C5: a record whose status is closed never has status open again.
C5_ClosedNeverReopened ==
    [][\A i \in ClosedDocs : store'[i]["status"] = "closed"]_vars

\* a second game has just been created next to a closed one
C5_Witness ==
    /\ ev.op = "create" /\ ev.res = "published" /\ ev.store_ok
    /\ ClosedDocs # {}
    /\ Len(store) > Cardinality(ClosedDocs)

\* C6: once a closed record has a winner, applying the closure again leaves
\* its winner fields and winner_tweet_id as they were.
C6_WinnerFieldsWriteOnce ==
    [][\A i \in ClosedDocs :
         Truthy(store[i]["winner_wallet"]) =>
             WinnerPart(store'[i]) = WinnerPart(store[i])]_vars

\* C7: at most one run of the create job and at most one run of the close job
\* are in flight.
C7_OneRunPerJob ==
    /\ Cardinality(Running(creates, CreateSlots)) <= 1
    /\ Cardinality(Running(sweeps, SweepSlots)) <= 1

\* a close firing has just been skipped because a sweep is still running,
\* while a create run is in flight too
C7_Witness ==
    /\ ev.op = "close_job" /\ ev.res = "max_instances"
    /\ Running(creates, CreateSlots) # {}
    /\ Running(sweeps, SweepSlots) # {}

\* C8: a create firing whose publish returned an error or no post identifier
\* leaves the store as it was.
C8_FailedPublishPersistsNothing ==
    [][(ev'.op = "create" /\ ev'.res \in {"publish_error", "no_tweet_id"})
          => store' = store]_vars

\* a publish has just returned no identifier while the store holds a game
C8_Witness ==
    ev.op = "create" /\ ev.res = "no_tweet_id" /\ store # << >>

\* C9: when a sweep ends and every call it made succeeded, every game whose
\* close_at lies before the start of that sweep is closed.
C9_DueGamesClosedBySweep ==
    (ev.sweep.ended /\ ev.sweep.clean) =>
        \A i \in DOMAIN store :
            store[i]["close_at"] < ev.sweep.started_at
                => store[i]["status"] = "closed"

\* a sweep in which every call succeeded has just ended by closing a game that
\* was due when it started
C9_Witness ==
    /\ ev.sweep.ended /\ ev.sweep.clean /\ ev.op = "announce"
    /\ Doc(ev.game)["close_at"] < ev.sweep.started_at
    /\ Doc(ev.game)["status"] = "closed"

\* C10: when the verdict's wallet is empty and the no-winner announcement is
\* posted, the game is closed with no wallet, no winner text and no winner
\* author data.
C10_EmptyWalletClosesEmpty ==
    (ev.op = "announce" /\ ev.kind = "no_impressive" /\ ev.posted /\ ev.store_ok) =>
        LET doc == Doc(ev.game) IN
        /\ doc["status"] = "closed"
        /\ doc["winner_wallet"] = ""
        /\ doc["winning_tweet_text"] = << >>
        /\ doc["winner_username"] = ""
        /\ doc["winner_name"] = ""
        /\ doc["winner_image_url"] = ""
        /\ doc["winner_author_id"] = ""
        /\ doc["winner_is_verified"] = FALSE

\* the document of a game in a given list of documents
DocIn(docs, game_id) == docs[CHOOSE i \in DOMAIN docs : docs[i]["game_id"] = game_id]

\* the reply the platform holds under an id
ReplyWithId(reply_id) == CHOOSE r \in Replies : r.id = reply_id

\* C11: when a closure ends with a winner (the winner announcement is posted
\* and the verdict's reply id is that of a validated entry), the stored record
\* is closed and carries the verdict's wallet, reply id and rationale and the
\* text, author data and author id of the reply the verdict names.
C11_WinnerFieldsPopulated ==
    [][(/\ ev'.op = "announce" /\ ev'.kind = "winner"
        /\ ev'.posted /\ ev'.store_ok
        /\ WinningEntry(sweeps[ev'.slot].valid_entries,
                        sweeps[ev'.slot].winner.result.reply_id) # EmptyDict) =>
         LET sw == sweeps[ev'.slot]
             verdict == sw.winner
             entry == WinningEntry(sw.valid_entries, verdict.result.reply_id)
             reply == ReplyWithId(verdict.result.reply_id)
             doc == DocIn(store', ev'.game)
         IN
         /\ doc["status"] = "closed"
         /\ doc["winner_wallet"] = verdict.result.wallet
         /\ doc["chain_of_thought"] = verdict.chain_of_thought
         /\ doc["winning_tweet_text"] = entry.text
         /\ doc["winner_username"] = Get(entry.author, "username", "")
         /\ doc["winner_name"] = Get(entry.author, "name", "")
         /\ doc["winner_image_url"] = Get(entry.author, "profile_image_url", "")
         /\ doc["winner_is_verified"] = Get(entry.author, "verified", FALSE)
         /\ Get(doc, "winner_reply_id", None) = verdict.result.reply_id
         /\ doc["winner_author_id"] = reply.author_id
      ]_vars

\* the record of a game closed without a winner: no wallet, no rationale, no
\* winning text, no author data
ClosedEmpty(doc) ==
    /\ doc["status"] = "closed"
    /\ doc["winner_wallet"] = ""
    /\ doc["chain_of_thought"] = ""
    /\ doc["winning_tweet_text"] = << >>
    /\ WinnerKeys \cap DOMAIN doc =
         {"winner_tweet_id", "winner_wallet", "chain_of_thought", "winning_tweet_text"}

\* the announcement step sent one reply of the given kind to the game's tweet
\* when the platform accepted it, and none otherwise; the record's
\* winner_tweet_id is that reply's id, or empty
AnnouncedAs(kind, doc) ==
    IF ev'.posted
    THEN /\ tweets' = Append(tweets, tweets'[Len(tweets')])
         /\ tweets'[Len(tweets')].kind = kind
         /\ tweets'[Len(tweets')].reply_to = doc["tweet_id"]
         /\ doc["winner_tweet_id"] = tweets'[Len(tweets')].id
    ELSE /\ tweets' = tweets
         /\ doc["winner_tweet_id"] = ""

\* C12: when the fetch for a due game returns zero replies, the sweep goes on to
\* the "no replies" announcement, and the announcement step closes the record
\* with empty winner fields whether or not the post succeeded; winner_tweet_id
\* is the announcement's id, and empty when the post failed.
C12_NoRepliesCloses ==
    [][/\ (ev'.op = "fetch" /\ ev'.res = "no_replies") =>
            /\ sweeps'[ev'.slot].pc = "announce"
            /\ sweeps'[ev'.slot].kind = "no_replies"
            /\ store' = store
       /\ (ev'.op = "announce" /\ ev'.kind = "no_replies" /\ ev'.store_ok) =>
            /\ ClosedEmpty(DocIn(store', ev'.game))
            /\ AnnouncedAs("no_replies", DocIn(store', ev'.game))
      ]_vars

\* a "no replies" announcement failed to post and the game is closed
C12_Witness ==
    /\ ev.op = "announce" /\ ev.kind = "no_replies"
    /\ ~ev.posted /\ ev.store_ok
    /\ Doc(ev.game)["status"] = "closed"
    /\ Doc(ev.game)["winner_tweet_id"] = ""

\* the reply's text holds a Solana address: a base58 string of 32 bytes
HasValidAddress(reply) ==
    \E i \in DOMAIN reply.text : reply.text[i] \in {"W1", "W2"}

\* C13: when the fetch for a due game returns at least one reply and no reply
\* holds a valid address, the sweep goes on to the "no valid wallet"
\* announcement without a judge call, and the announcement step closes the
\* record with empty winner fields whether or not the post succeeded.
C13_NoValidWalletCloses ==
    [][/\ (/\ ev'.op = "fetch" /\ ev'.res = "replies"
           /\ \A i \in DOMAIN ev'.replies : ~HasValidAddress(ev'.replies[i])) =>
            /\ sweeps'[ev'.slot].pc = "announce"
            /\ sweeps'[ev'.slot].kind = "no_valid_wallet"
            /\ store' = store
       /\ (ev'.op = "announce" /\ ev'.kind = "no_valid_wallet" /\ ev'.store_ok) =>
            /\ sweeps[ev'.slot].winner = EmptyDict
            /\ ClosedEmpty(DocIn(store', ev'.game))
            /\ AnnouncedAs("no_valid_wallet", DocIn(store', ev'.game))
      ]_vars

\* a "no valid wallet" announcement failed to post and the game is closed
C13_Witness ==
    /\ ev.op = "announce" /\ ev.kind = "no_valid_wallet"
    /\ ~ev.posted /\ ev.store_ok
    /\ Doc(ev.game)["status"] = "closed"

\* the replies of the list that hold a valid address
ValidReplies(replies) == {i \in DOMAIN replies : HasValidAddress(replies[i])}

\* C14: when the replies fetched for a due game hold exactly one reply with a
\* valid address, the judge is called with the list of that reply's entry alone;
\* and when the judge names that entry, the announcement step closes the
\* record with the entry's wallet, text and author data.
C14_SingleEntryWins ==
    [][/\ (/\ ev'.op = "fetch" /\ ev'.res = "replies"
           /\ Cardinality(ValidReplies(ev'.replies)) = 1) =>
            LET reply == ev'.replies[CHOOSE i \in ValidReplies(ev'.replies) : TRUE]
            IN  /\ sweeps'[ev'.slot].pc = "judge"
                /\ \E w \in {"W1", "W2"} :
                     sweeps'[ev'.slot].valid_entries = <<Entry(reply, w)>>
       /\ (/\ ev'.op = "announce" /\ ev'.kind = "winner" /\ ev'.store_ok
           /\ Len(sweeps[ev'.slot].valid_entries) = 1
           /\ sweeps[ev'.slot].winner.result =
                [wallet |-> sweeps[ev'.slot].valid_entries[1].wallet,
                 reply_id |-> sweeps[ev'.slot].valid_entries[1].reply_id]) =>
            LET entry == sweeps[ev'.slot].valid_entries[1]
                doc == DocIn(store', ev'.game)
            IN  /\ doc["status"] = "closed"
                /\ doc["winner_wallet"] = entry.wallet
                /\ Get(doc, "winning_tweet_text", None) = entry.text
                /\ Get(doc, "winner_username", None) = Get(entry.author, "username", "")
                /\ Get(doc, "winner_name", None) = Get(entry.author, "name", "")
                /\ Get(doc, "winner_image_url", None)
                     = Get(entry.author, "profile_image_url", "")
                /\ Get(doc, "winner_is_verified", None)
                     = Get(entry.author, "verified", FALSE)
      ]_vars

\* C15: a sweep acts only on games whose close_at has come: a step leaves the
\* record of every game whose close_at is still ahead unchanged, fetches no
\* replies for it, does not judge it and posts no reply to its tweet, and no
\* sweep ever holds such a game as the one it is working on.
C15_NotDueUntouched ==
    [][/\ \A i \in DOMAIN store :
            store[i]["close_at"] > now' =>
              /\ store'[i] = store[i]
              /\ ev'.op \in {"fetch", "judge", "announce"}
                   => ev'.game # store[i]["game_id"]
              /\ \A k \in DOMAIN tweets' \ DOMAIN tweets :
                   tweets'[k].reply_to # store[i]["tweet_id"]
       /\ \A s \in AllSweepSlots :
            sweeps'[s].pc # "idle" => Head(sweeps'[s].open_games)["close_at"] <= now'
      ]_vars

\* a sweep has just closed a due game while another open game is not yet due
C15_Witness ==
    /\ ev.op = "announce" /\ ev.store_ok
    /\ Doc(ev.game)["status"] = "closed"
    /\ \E i \in DOMAIN store :
         store[i]["status"] = "open" /\ store[i]["close_at"] > now

\* what a firing of a job does depends on that job alone: its next run time
\* moves to the next point of its own interval, it is skipped only while a run
\* of the same job is in flight, and dropped only when it is late
FiresOnItsOwn(job, op, seconds, running) ==
    ev'.op = op =>
      /\ jobs'[job] > now'
      /\ jobs'[job] - now' <= seconds
      /\ (jobs'[job] - jobs[job]) % seconds = 0
      /\ ev'.res = "max_instances" => running # {}
      /\ ev'.res = "missed" => now' - jobs[job] > misfire_grace_time
      /\ (running = {} /\ now' - jobs[job] <= misfire_grace_time)
           => ev'.res = "started"

C17_ShutdownWaitsForJobs ==
    [][/\ jobs.stop_event => ~(ev'.op \in {"create_job", "close_job"}
                               /\ ev'.res = "started")
       /\ \A s \in SweepSlots :
            (sweeps[s].pc # "idle" /\ sweeps'[s].pc = "idle")
               => (ev'.op \in {"fetch", "judge", "announce"} /\ ev'.slot = s)
       /\ \A c \in CreateSlots :
            (creates[c].pc # "idle" /\ creates'[c].pc = "idle")
               => (ev'.op = "create" /\ ev'.slot = c)
      ]_vars

\* C18: a store call that fails ends the job body that made it (the error is
\* not swallowed: the sweep stops with the games after it unprocessed, the
\* create run ends) and leaves every record as it was; the game whose closing
\* update failed is still open, and the next sweep that lists the open games
\* takes up every open game that is due, that one included.
C18_StoreErrorSurfaces ==
    [][/\ (ev'.op = "announce" /\ ~ev'.store_ok) =>
            /\ store' = store
            /\ ev'.game \in OpenIds(store')
            /\ sweeps'[ev'.slot].pc = "idle"
            /\ ev'.sweep.ended /\ ~ev'.sweep.clean
       /\ (ev'.op = "create" /\ ~ev'.store_ok) =>
            /\ store' = store
            /\ creates'[ev'.slot].pc = "idle"
       /\ (ev'.op = "close_job" /\ ev'.res = "started" /\ ev'.store_ok) =>
            \A i \in DOMAIN store :
              (store[i]["status"] = "open" /\ store[i]["close_at"] <= now) =>
                /\ sweeps'[ev'.slot].pc = "fetch"
                /\ \E k \in DOMAIN sweeps'[ev'.slot].open_games :
                     sweeps'[ev'.slot].open_games[k]["game_id"] = store[i]["game_id"]
      ]_vars

\* a sweep takes up a game that an earlier sweep announced and failed to close
C18_Witness ==
    /\ ev.op = "close_job" /\ ev.res = "started" /\ ev.store_ok
    /\ sweeps[ev.slot].pc = "fetch"
    /\ \E k \in DOMAIN tweets :
         /\ tweets[k].kind \in {"no_replies", "no_valid_wallet", "winner"}
         /\ tweets[k].reply_to = Head(sweeps[ev.slot].open_games)["tweet_id"]

\* a required setting is absent: a platform credential or the store's
\* connection string
SettingMissing == ~cfg.X_CREDENTIALS \/ cfg.COSMOS_MONGO_URI = ""

\* C19: when a required setting is absent the process exits before scheduling,
\* so that no create run and no sweep ever starts or is in flight, and nothing
\* is published.
C19_MissingSettingIsFatal ==
    SettingMissing =>
        /\ ev.op \in {"start", "tick"}
        /\ Running(creates, CreateSlots) = {}
        /\ Running(sweeps, AllSweepSlots) = {}
        /\ tweets = << >>

\* C20: a create run whose publish succeeds, and whose store call is served,
\* adds exactly one record after the existing ones: open, with no winner data,
\* holding the id of the post just published, the close time computed from the
\* configured or drawn duration, and a game_id no existing record has; no step
\* adds more than one record, and no other step adds any.
C20_OneRecordPerCreate ==
    [][/\ (ev'.op = "create" /\ ev'.res = "published" /\ ev'.store_ok) =>
            /\ Len(store') = Len(store) + 1
            /\ SubSeq(store', 1, Len(store)) = store
            /\ tweets' = Append(tweets, tweets'[Len(tweets')])
            /\ tweets'[Len(tweets')].kind = "game"
            /\ LET doc == store'[Len(store')] IN
               /\ doc["status"] = "open"
               /\ doc["winner_wallet"] = None
               /\ doc["winner_tweet_id"] = None
               /\ WinnerKeys \cap DOMAIN doc = {"winner_wallet", "winner_tweet_id"}
               /\ doc["tweet_id"] = tweets'[Len(tweets')].id
               /\ doc["game_id"] = ev'.game
               /\ doc["created_at"] \in LaterNow
               /\ doc["close_at"] > now
               /\ cfg.GAME_DURATION = "100" => doc["close_at"] = now + 100
               /\ \A i \in DOMAIN store : store[i]["game_id"] # doc["game_id"]
       /\ Len(store') <= Len(store) + 1
       /\ Len(store') # Len(store) =>
            (ev'.op = "create" /\ ev'.res = "published" /\ ev'.store_ok)
      ]_vars

\* a second game has just been recorded next to the first
C20_Witness ==
    /\ ev.op = "create" /\ ev.res = "published" /\ ev.store_ok
    /\ Len(store) = 2
    /\ store[1]["game_id"] # store[2]["game_id"]
    /\ store[2]["status"] = "open"

\* the offsets a game can be given: the configured duration in seconds, or one
\* of the six candidate numbers of minutes
Offsets ==
    IF cfg.GAME_DURATION # "" THEN {IntOf(cfg.GAME_DURATION)}
    ELSE {m * 60 : m \in {30, 60, 90, 120, 150, 180}}

\* C21: for every record, close_at equals the record's created_at plus the
\* offset: the configured duration, else one of 30, 60, 90, 120, 150 or 180
\* minutes.
C21_CloseAtIsCreationPlusOffset ==
    \A i \in DOMAIN store :
        store[i]["close_at"] - store[i]["created_at"] \in Offsets

\* the fields of a record that are set at creation
CreationKeys == {"game_id", "tweet_id", "game_type", "created_at", "close_at"}

\* C22: no step changes the game_id, post id, game_type, created_at or close_at
\* of an existing record, and no step removes a record.
C22_CreationFieldsImmutable ==
    [][/\ Len(store') >= Len(store)
       /\ \A i \in DOMAIN store : \A k \in CreationKeys :
            Get(store'[i], k, None) = store[i][k]
      ]_vars

\* a record has been closed by an update made after its close time
C22_Witness ==
    \E i \in DOMAIN store :
        /\ store[i]["status"] = "closed"
        /\ "updated_at" \in DOMAIN store[i]
        /\ store[i]["close_at"] < store[i]["updated_at"]
        /\ store[i]["winner_wallet"] = "W1"

\* the open games of the store whose close time has come, in store order
DueOpen == SelectSeq(store, LAMBDA g : g["status"] = "open" /\ g["close_at"] <= now)

\* C23: in a process that started, the close job is scheduled whether or not
\* create-game is disabled: its first run time is the startup time, its next
\* run time is always a multiple of the close interval and at most one interval
\* ahead, and a firing that starts runs one sweep: it begins with the first
\* open game that is due, over games the store lists as open, and ends at once
\* when there is none.
C23_CloseJobAlwaysScheduled ==
    [][cfg.X_CREDENTIALS =>
         /\ ev.op = "start" => jobs.close_game_job = 0
         /\ jobs'.close_game_job # NoJob
         /\ jobs'.close_game_job % cfg.CLOSE_GAME_SCHEDULE = 0
         /\ jobs'.close_game_job <= now' + cfg.CLOSE_GAME_SCHEDULE
         /\ (ev'.op = "close_job" /\ ev'.res = "started" /\ ev'.store_ok) =>
              /\ jobs'.close_game_job = now + cfg.CLOSE_GAME_SCHEDULE
              /\ \A s \in AllSweepSlots \ {ev'.slot} : sweeps'[s] = sweeps[s]
              /\ IF DueOpen = << >>
                 THEN ev'.sweep.ended /\ sweeps'[ev'.slot].pc = "idle"
                 ELSE /\ sweeps'[ev'.slot].pc = "fetch"
                      /\ Head(sweeps'[ev'.slot].open_games) = Head(DueOpen)
                      /\ \A k \in DOMAIN sweeps'[ev'.slot].open_games :
                           sweeps'[ev'.slot].open_games[k]["game_id"] \in OpenIds(store)
      ]_vars

\* with create-game disabled, a sweep starts at a firing after the first
C23_Witness ==
    /\ cfg.disable_create_game
    /\ ev.op = "close_job" /\ ev.res = "started" /\ ev.store_ok
    /\ now > 0

\* C24: in a process that started, the create job is never scheduled and no
\* create run ever starts when create-game is disabled; otherwise its first
\* run time is the startup time when run-on-startup is set and one create
\* interval later when it is not, and no run starts before it.  A firing that
\* starts puts exactly one run in flight, and a run makes one publish and at
\* most one record.
C24_CreateJobSchedule ==
    [][cfg.X_CREDENTIALS =>
         /\ cfg.disable_create_game =>
              /\ jobs'.create_game_job = NoJob
              /\ ~(ev'.op \in {"create_job", "create"})
              /\ Running(creates', CreateSlots) = {}
              /\ tweets' = << >>
         /\ (~cfg.disable_create_game /\ ev.op = "start") =>
              jobs.create_game_job =
                 IF cfg.create_game_on_startup THEN 0 ELSE cfg.START_GAME_SCHEDULE
         /\ (~cfg.create_game_on_startup /\ now' < cfg.START_GAME_SCHEDULE) =>
              (ev'.op # "create_job" /\ Running(creates', CreateSlots) = {})
         /\ (ev'.op = "create_job" /\ ev'.res = "started") =>
              /\ Running(creates', CreateSlots)
                   = Running(creates, CreateSlots) \cup {ev'.slot}
              /\ ~(ev'.slot \in Running(creates, CreateSlots))
              /\ tweets' = tweets /\ store' = store
         /\ ev'.op = "create" =>
              /\ Running(creates', CreateSlots)
                   = Running(creates, CreateSlots) \ {ev'.slot}
              /\ ev'.slot \in Running(creates, CreateSlots)
              /\ Len(tweets') <= Len(tweets) + 1
              /\ Len(store') <= Len(store) + 1
         /\ ev'.op # "create" =>
              (Len(Published)' = Len(Published) /\ Len(store') = Len(store))
      ]_vars

\* with run-on-startup off, the first create run starts one interval after
\* startup
C24_Witness ==
    /\ ~cfg.create_game_on_startup /\ ~cfg.disable_create_game
    /\ ev.op = "create_job" /\ ev.res = "started"
    /\ now = cfg.START_GAME_SCHEDULE
    /\ tweets = << >>

\* a firing of the job scheduled for jobs[job], processed now, less than one
\* interval later: it runs when it is at most 60 seconds late, unless a run of
\* the job is in flight; when it is more than 60 seconds late it does not run,
\* and the job's next run time moves on so that it is never run later
GraceWindow(job, op, seconds, running) ==
    (ev'.op = op /\ now - jobs[job] < seconds) =>
        /\ (now - jobs[job] <= 60 /\ running = {}) => ev'.res = "started"
        /\ now - jobs[job] > 60 =>
             /\ ev'.res = "missed"
             /\ creates' = creates /\ sweeps' = sweeps
             /\ store' = store /\ tweets' = tweets
        /\ jobs'[job] = jobs[job] + seconds

\* C25: for the create job and for the close job, a firing delayed by at most
\* 60 seconds still runs and a firing delayed by more than 60 seconds is
\* dropped, not run late.
C25_MisfireGrace ==
    [][/\ GraceWindow("close_game_job", "close_job", cfg.CLOSE_GAME_SCHEDULE,
                      Running(sweeps, SweepSlots))
       /\ GraceWindow("create_game_job", "create_job", cfg.START_GAME_SCHEDULE,
                      Running(creates, CreateSlots))
      ]_vars

\* a firing exactly 60 seconds late has started its run
C25_Witness ==
    /\ ev.op \in {"create_job", "close_job"} /\ ev.res = "started"
    /\ now = 60

\* the strings of the address alphabet, 32 to 44 characters long, that a word
\* holds: the word itself, or the word without its underscore
AlphabetRuns(word) ==
    IF word \in {"W1", "W2", "X1", "Y1"} THEN {word}
    ELSE IF word = "_W1" THEN {"W1"} ELSE {}

\* bytes of the decoded string
PayloadBytes(run) ==
    IF run \in {"W1", "W2"} THEN 32 ELSE IF run = "Y1" THEN 33 ELSE 31

\* the candidate substrings of a text whose payload is 32 bytes long
ValidSubstrings(text) ==
    {r \in UNION {AlphabetRuns(text[i]) : i \in DOMAIN text} : PayloadBytes(r) = 32}

\* the whole words of a text that are candidates whose payload is 32 bytes long
ValidWords(text) ==
    {text[i] : i \in {j \in DOMAIN text :
                        AlphabetRuns(text[j]) = {text[j]} /\ PayloadBytes(text[j]) = 32}}

GameFailed(e) ==
    \/ e.op = "fetch" /\ e.res \in {"rate_limit", "fetch_error"}
    \/ e.op = "judge" /\ e.res = "parse_failure"
    \/ e.op = "announce" /\ ~e.store_ok

\* the games a sweep has listed after the one it is working on that are due
DueAfter(sw) ==
    SelectSeq(Tail(sw.open_games), LAMBDA g : g["close_at"] <= now)

\* C27: when the processing of one game fails in a sweep that has listed
\* further due games, the sweep goes on to the next of them.
C27_GamesIndependent ==
    [][(GameFailed(ev') /\ DueAfter(sweeps[ev'.slot]) # << >>) =>
         /\ sweeps'[ev'.slot].pc = "fetch"
         /\ Head(sweeps'[ev'.slot].open_games) = Head(DueAfter(sweeps[ev'.slot]))
      ]_vars

\* the first word of the text, in text order, that is a valid address
FirstValid(text) ==
    text[CHOOSE j \in DOMAIN text :
            /\ text[j] \in ValidWords(text)
            /\ \A k \in DOMAIN text : text[k] \in ValidWords(text) => j <= k]

\* the reply of a list with the given id
ReplyOf(replies, reply_id) ==
    replies[CHOOSE i \in DOMAIN replies : replies[i].id = reply_id]

\* C28: the entry built for a reply carries the first valid address of the
\* reply's text, in text order, also when the text holds several.
C28_FirstAddressWins ==
    ev.op = "validated" =>
        \A k \in DOMAIN ev.valid_entries :
            ev.valid_entries[k].wallet
               = FirstValid(ReplyOf(ev.replies, ev.valid_entries[k].reply_id).text)

\* the replies of the list that hold at least one valid address, in order
RepliesWithAddress(replies) ==
    SelectSeq(replies, LAMBDA r : ValidWords(r.text) # {})

\* C29: the validated entries are, in the order of the fetched replies, one
\* entry for each reply that holds a valid address and none for any other
\* reply; each entry carries its reply's id, text and author data and one of
\* the valid addresses of its text.
C29_OneEntryPerValidReply ==
    ev.op = "validated" =>
        LET valid == RepliesWithAddress(ev.replies) IN
        /\ Len(ev.valid_entries) = Len(valid)
        /\ \A k \in DOMAIN ev.valid_entries :
             /\ ev.valid_entries[k].reply_id = valid[k].id
             /\ ev.valid_entries[k].text = valid[k].text
             /\ ev.valid_entries[k].author = Get(valid[k], "author", EmptyDict)
             /\ ev.valid_entries[k].wallet \in ValidWords(valid[k].text)

\* a reply without an address was followed by one with an address
C29_Witness ==
    /\ ev.op = "validated"
    /\ Len(ev.replies) = 2
    /\ ValidWords(ev.replies[1].text) = {}
    /\ ev.replies[1].text # << >>
    /\ Len(ev.valid_entries) = 1
    /\ ev.valid_entries[1].reply_id = "r2"

\* the sweep of slot s moved to position pc with this step
Reaches(s, pc) == sweeps'[s].pc = pc /\ sweeps[s].pc # pc

\* C30: within a game's closure the steps come in the order fetch, validate,
\* select, announce, persist.  The judge is entered only from a fetch that
\* returned replies and left validated entries; the announcement only from a
\* fetch that left nothing to judge or from the judge's verdict; a record is
\* written, and a reply posted, only by the step in which the announcement
\* attempt for that game returned.
C30_ClosureStepsInOrder ==
    [][/\ \A s \in AllSweepSlots :
            /\ Reaches(s, "judge") =>
                 /\ sweeps[s].pc = "fetch"
                 /\ ev'.op = "fetch" /\ ev'.slot = s /\ ev'.res = "replies"
                 /\ sweeps'[s].valid_entries # << >>
            /\ Reaches(s, "announce") =>
                 \/ /\ sweeps[s].pc = "fetch" /\ ev'.op = "fetch" /\ ev'.slot = s
                    /\ sweeps'[s].kind \in {"no_replies", "no_valid_wallet"}
                 \/ /\ sweeps[s].pc = "judge" /\ ev'.op = "judge" /\ ev'.slot = s
                    /\ ev'.res = "verdict"
                    /\ sweeps'[s].kind \in {"winner", "no_impressive"}
            /\ (sweeps[s].pc = "fetch" /\ sweeps'[s] # sweeps[s]) =>
                 (ev'.op = "fetch" /\ ev'.slot = s)
       /\ \A i \in DOMAIN store :
            store'[i] # store[i] =>
              /\ ev'.op = "announce"
              /\ ev'.game = store[i]["game_id"]
              /\ sweeps[ev'.slot].pc = "announce"
              /\ Head(sweeps[ev'.slot].open_games)["game_id"] = store[i]["game_id"]
       /\ (\E k \in DOMAIN tweets' \ DOMAIN tweets : tweets'[k].kind # "game") =>
            (ev'.op = "announce" /\ ev'.posted)
      ]_vars

\* a closure went through every step: the winner announcement returned and
\* the record is closed with the announcement's id
C30_Witness ==
    /\ ev.op = "announce" /\ ev.kind = "winner" /\ ev.posted /\ ev.store_ok
    /\ Doc(ev.game)["status"] = "closed"
    /\ Doc(ev.game)["winner_tweet_id"] = tweets[Len(tweets)].id

\* the closure announcements the platform accepted for the game tweet
Announcements(tweet_id) ==
    {k \in DOMAIN tweets : tweets[k].kind # "game" /\ tweets[k].reply_to = tweet_id}

\* C31: for every game at most one closure announcement is successfully
\* posted, whatever calls fail and however many sweeps run.
C31_OneAnnouncementPerGame ==
    \A k \in DOMAIN tweets :
        tweets[k].kind = "game" => Cardinality(Announcements(tweets[k].id)) <= 1

\* the record carries the wallet, text and author data of the entry
PersistedFrom(doc, entry) ==
    /\ doc["winner_wallet"] = entry.wallet
    /\ doc["winning_tweet_text"] = entry.text
    /\ doc["winner_username"] = Get(entry.author, "username", "")
    /\ doc["winner_name"] = Get(entry.author, "name", "")
    /\ doc["winner_image_url"] = Get(entry.author, "profile_image_url", "")
    /\ doc["winner_is_verified"] = Get(entry.author, "verified", FALSE)

\* C32: when a judged closure is persisted, the record's winner_wallet is
\* empty or is the wallet of one of the entries validated from the replies
\* fetched in the same sweep, and the persisted text and author data are
\* those of that same entry.
C32_WinnerIsAnEntry ==
    [][(/\ JudgedAnnounce' /\ ev'.posted /\ ev'.store_ok) =>
         LET entries == sweeps[ev'.slot].valid_entries
             doc == DocIn(store', ev'.game)
         IN  /\ doc["status"] = "closed"
             /\ \/ doc["winner_wallet"] = ""
                \/ \E i \in DOMAIN entries : PersistedFrom(doc, entries[i])
      ]_vars

\* the records holding the post's id
RecordsOf(docs, tweet_id) == {i \in DOMAIN docs : docs[i]["tweet_id"] = tweet_id}

\* C33: a create run publishes before it touches the store.  When the publish
\* succeeded and the store then fails, the announcement is on the platform, no
\* record holds its id, the store is as before, and the run just ends: the
\* job's schedule is untouched.  No step ever takes a published post back.
\* With the store's connection string missing, every create run whose publish
\* succeeds is of this kind, so all published announcements are without record.
C33_PublishedWithoutRecord ==
    [][/\ (ev'.op = "create" /\ ev'.res = "published" /\ ~ev'.store_ok) =>
            /\ Len(tweets') = Len(tweets) + 1
            /\ tweets'[Len(tweets')].kind = "game"
            /\ RecordsOf(store', tweets'[Len(tweets')].id) = {}
            /\ store' = store
            /\ creates'[ev'.slot] = IdleCreate
            /\ jobs' = jobs
       /\ SubSeq(tweets', 1, Len(tweets)) = tweets
       /\ (ev'.op = "create" /\ ev'.res = "published"
             /\ ~Truthy(cfg.COSMOS_MONGO_URI)) =>
            /\ ~ev'.store_ok
            /\ Len(Published') = Len(Published) + 1
            /\ store' = << >>
      ]_vars

\* a second announcement has just been published under the same store
\* failure: two announcements on the platform and no record
C33_Witness ==
    /\ ev.op = "create" /\ ev.res = "published" /\ ~ev.store_ok
    /\ ~Truthy(cfg.COSMOS_MONGO_URI)
    /\ Len(Published) = 2
    /\ store = << >>

\* l is what is left of m after some of its first elements are taken away
IsSuffix(l, m) == \E n \in 0 .. Len(m) : l = SubSeq(m, n + 1, Len(m))

SweepOps == {"close_job", "fetch", "judge", "announce"}

\* C34: a create run only adds one record after the existing ones and changes
\* none of them.  A sweep adds no record and changes only records of its own
\* list; that list is drawn from the records the store held as open when the
\* sweep started and only ever loses games from its front, so a game created
\* while the sweep is in flight never enters it and is not written by it.
C34_CreateAndSweepApart ==
    [][/\ ev'.op = "create" =>
            /\ Len(store') \in {Len(store), Len(store) + 1}
            /\ SubSeq(store', 1, Len(store)) = store
       /\ ev'.op \in SweepOps =>
            /\ Len(store') = Len(store)
            /\ \A i \in DOMAIN store :
                 store'[i] # store[i] =>
                   \E k \in DOMAIN sweeps[ev'.slot].open_games :
                     sweeps[ev'.slot].open_games[k]["game_id"] = store[i]["game_id"]
       /\ (ev'.op = "close_job" /\ ev'.res = "started") =>
            \A k \in DOMAIN sweeps'[ev'.slot].open_games :
              \E i \in DOMAIN store :
                /\ store[i]["status"] = "open"
                /\ sweeps'[ev'.slot].open_games[k] = store[i]
       /\ \A s \in AllSweepSlots :
            sweeps[s].pc # "idle" =>
              IsSuffix(sweeps'[s].open_games, sweeps[s].open_games)
      ]_vars

\* the sweep that listed g1 alone has ended by closing it, while the game
\* created after the listing, open and due by now, is as it was inserted
C34_Witness ==
    /\ ev.op = "announce" /\ ev.game = "g1" /\ ev.posted /\ ev.store_ok
    /\ ev.sweep.ended
    /\ Len(store) = 2
    /\ store[1]["status"] = "closed"
    /\ store[2]["status"] = "open" /\ store[2]["close_at"] <= now
    /\ "updated_at" \notin DOMAIN store[2]

\* C35: the judge is called only for a game that is open and past its
\* close_at, after a fetch for that game that returned replies and no error,
\* and with the entries validated from those replies, of which there is at
\* least one; it is never called with an empty list.
C35_JudgeCalledWithEntries ==
    [][\A s \in AllSweepSlots :
         /\ Reaches(s, "judge") =>
              LET game == Head(sweeps'[s].open_games) IN
              /\ ev'.op = "fetch" /\ ev'.slot = s /\ ev'.game = game["game_id"]
              /\ ev'.replies # << >> /\ ~IsFetchError(ev'.replies)
              /\ sweeps'[s].valid_entries \in ValidEntries(ev'.replies)
              /\ sweeps'[s].valid_entries # << >>
              /\ DocIn(store', game["game_id"])["status"] = "open"
              /\ DocIn(store', game["game_id"])["close_at"] <= now'
         /\ (ev'.op = "judge" /\ ev'.slot = s) =>
              LET game == Head(sweeps[s].open_games) IN
              /\ sweeps[s].pc = "judge"
              /\ sweeps[s].valid_entries # << >>
              /\ ev'.game = game["game_id"]
              /\ DocIn(store, game["game_id"])["status"] = "open"
              /\ DocIn(store, game["game_id"])["close_at"] <= now
      ]_vars

\* the judge has just answered for an open, due game, asked with the one
\* entry its replies gave
C35_Witness ==
    /\ ev.op = "judge" /\ ev.res = "verdict"
    /\ Len(sweeps[ev.slot].valid_entries) = 1
    /\ Doc(ev.game)["status"] = "open" /\ Doc(ev.game)["close_at"] <= now

\* the open records whose close_at is absent or null
NoCloseAt == {i \in DOMAIN store :
                store[i]["status"] = "open" /\ Get(store[i], "close_at", -1) = -1}

\* C36: an open record whose close_at is absent or null is passed over by
\* every sweep: no step fetches, judges or announces for it, posts a reply to
\* its tweet, holds it as the game it is working on, or changes the record,
\* so it stays open.
C36_NoCloseAtNeverClosed ==
    [][\A i \in NoCloseAt :
         /\ store'[i] = store[i]
         /\ ev'.op \in {"fetch", "judge", "announce"}
              => ev'.game # store[i]["game_id"]
         /\ \A k \in DOMAIN tweets' \ DOMAIN tweets :
              tweets'[k].reply_to # store[i]["tweet_id"]
         /\ \A s \in AllSweepSlots :
              sweeps'[s].pc # "idle" =>
                Head(sweeps'[s].open_games)["game_id"] # store[i]["game_id"]
      ]_vars

\* a sweep that listed both records ahead of a due game has closed that game
\* and ended; the record lacking close_at and the one holding null are open
\* and were never updated
C36_Witness ==
    /\ ev.op = "announce" /\ ev.game = "g3" /\ ev.sweep.ended /\ ev.sweep.clean
    /\ Len(store) >= 3
    /\ store[3]["status"] = "closed"
    /\ NoCloseAt = {1, 2}
    /\ "close_at" \notin DOMAIN store[1]
    /\ "close_at" \in DOMAIN store[2]
    /\ "updated_at" \notin DOMAIN store[1] \cup DOMAIN store[2]
    /\ now > 0

\* the parts of a text
Parts(text) == {text[i] : i \in DOMAIN text}

\* the keys create_game stores
StoredKeys ==
    {"game_id", "tweet_id", "game_type", "status", "created_at", "close_at",
     "winner_tweet_id", "winner_wallet"}

\* C37: a create run publishes before it computes close_at and before it fills
\* in the result time.  The text on the platform is the body the run held
\* while it waited for the post, with the placeholder still in it; close_at is
\* counted from the clock as it stands when the post has returned; the text
\* with the result time filled in exists only as the run's local value when
\* the run ends: no post carries it and the record has no field for it.
C37_TemplatePublishedUnrendered ==
    [][(ev'.op = "create" /\ ev'.res = "published") =>
         /\ Len(tweets') = Len(tweets) + 1
         /\ LET sent == tweets'[Len(tweets')].text
                rendered == ev'.tweet_text
            IN
            /\ sent = creates[ev'.slot].tweet_text
            /\ sent = choose_game(creates[ev'.slot].game_type)
            /\ Placeholder \in Parts(sent)
            /\ Placeholder \notin Parts(rendered)
            /\ \E m \in {IntOf(cfg.GAME_DURATION) \div 60} \cup possible_durations :
                 rendered = format(sent, ResultTime(m))
            /\ \A k \in DOMAIN tweets' :
                 tweets'[k].kind = "game" => tweets'[k].text # rendered
            /\ ev'.store_ok =>
                 /\ Len(store') = Len(store) + 1
                 /\ DOMAIN store'[Len(store')] = StoredKeys
                 /\ store'[Len(store')]["close_at"] - now' \in Offsets
      ]_vars

\* a game has just been published and stored some time after its run began:
\* the post holds the placeholder, the run's local text the result time
C37_Witness ==
    /\ ev.op = "create" /\ ev.res = "published" /\ ev.store_ok
    /\ Placeholder \in Parts(tweets[Len(tweets)].text)
    /\ ResultTime(1) \in Parts(ev.tweet_text)
    /\ store[Len(store)]["close_at"] = now + IntOf(cfg.GAME_DURATION)
    /\ now > 0
====
